---- MODULE Spec2Model ----
(***************************************************************************)
(* Model of internal/locate/statistics.go: the lock-free, time-windowed    *)
(* latency statistics (latencyStats, bucket, SingleStat, Stats).           *)
(*                                                                         *)
(* A bucket is two atomic words, ts (int64) and countAndTotal (uint64).    *)
(* Every atomic operation of bucket.observe (ts.Load, ts.CAS,              *)
(* countAndTotal.Store, countAndTotal.Add) and every countAndTotal.Load of *)
(* getLatestStats is one action, so goroutines interleave at exactly the   *)
(* points where the Go memory model lets them.                             *)
(*                                                                         *)
(* Widths: the count field keeps its width of counterBytes = 3 bits.  The  *)
(* uint64 word itself is held as a natural number: TLC's integers are 32   *)
(* bits wide, and the latencies of the model (Values) keep every sum far   *)
(* below 2^61, so the 64-bit wrap-around of the word is not reached.       *)
(***************************************************************************)
EXTENDS Integers, Sequences, FiniteSets, TLC

(***************************************************************************)
(* Program constants                                                       *)
(***************************************************************************)
bucketsCount == 10
counterBytes == 3
numOfLastStats == 5
\* attenuateFactor = 0.9 = attenuateNum / attenuateDen
attenuateNum == 9
attenuateDen == 10
\* the least weighted count WeightedAvg answers for: totalCount < 100.0
minWeightedCountLow == 100 \div 10
minWeightedCount == 100

(***************************************************************************)
(* Bounds of the model                                                     *)
(***************************************************************************)
\* the earliest second observed; Seconds holds it, the next second (the
\* neighbouring slot) and the second one ring revolution later (same slot)
BaseSecond == 0
\* observed latencies are ValUnit and 2 * ValUnit milliseconds
ValUnit == 10
\* observe calls made in one sequential run
MaxObserve == 9

Seconds == {BaseSecond, BaseSecond + 1, BaseSecond + bucketsCount}
Values == {ValUnit, 2 * ValUnit}
Slots == 0 .. (bucketsCount - 1)
\* goroutines of a concurrent run
NumProcs == 3
\* goroutines of a burst: one more than the 3-bit count can hold
BurstProcs == 8
\* samples a slot may hold before a concurrent run starts
MaxPrior == 7
\* goroutines and observe calls of a run of concurrent callers of any second
NumWriters == 2
MaxCalls == 3
\* samples a slot may hold before a run of writers and a reader starts
MaxReadPrior == 2
\* the entries of an aggregated Stats have Count 0, CountUnit or
\* 2 * CountUnit and Sum 0 or SumUnit
CountUnit == 50
SumUnit == 500
\* the SingleStat values Avg is applied to have Count 0 .. MaxAvgCount and
\* Sum 0 .. MaxAvgSum
MaxAvgCount == 7
MaxAvgSum == 60
Procs == 1 .. BurstProcs
SeqProcs == {1}
\* the second every goroutine of a concurrent run observes
ConcSecond == BaseSecond + bucketsCount

(***************************************************************************)
(* Machine arithmetic                                                      *)
(***************************************************************************)
\* x << n and x >> n on unsigned words
Shl(x, n) == x * (2 ^ n)
Shr(x, n) == x \div (2 ^ n)

\* bitwise a & b and a | b on unsigned words
RECURSIVE BitAnd(_, _)
BitAnd(a, b) ==
    IF a = 0 \/ b = 0 THEN 0
    ELSE ((a % 2) * (b % 2)) + 2 * BitAnd(a \div 2, b \div 2)

RECURSIVE BitOr(_, _)
BitOr(a, b) ==
    IF a = 0 THEN b
    ELSE IF b = 0 THEN a
    ELSE (IF (a % 2) + (b % 2) > 0 THEN 1 ELSE 0) + 2 * BitOr(a \div 2, b \div 2)

\* Go's % truncates towards zero
GoRem(a, b) == IF a >= 0 THEN a % b ELSE -((-a) % b)

\* a mask whose decrement was forgotten
counterMuskNoDec == Shl(1, counterBytes)
counterMusk == Shl(1, counterBytes) - 1

(***************************************************************************)
(* bucket                                                                  *)
(***************************************************************************)
\* the zero value of a bucket
ZeroBucket == [ts |-> 0, countAndTotal |-> 0]

\* if oldTs != ts
outdatedAlways(oldTs, ts) == TRUE
outdated(oldTs, ts) == oldTs # ts

\* b.ts.CAS(old, new): the bucket afterwards and whether the swap happened
casOkAlways(b, old) == TRUE
casOk(b, old) == b.ts = old
casTs(b, old, new) == IF casOk(b, old) THEN [b EXCEPT !.ts = new] ELSE b

\* where observe continues after its CAS: only the winner stores
afterCasNoStore(ok) == "add"
afterCasRetry(ok) == IF ok THEN "store" ELSE "load_ts"
afterCas(ok) == IF ok THEN "store" ELSE "add"

\* b.countAndTotal.Store(0)
storeZeroSkipped(b) == b
storeZero(b) == [b EXCEPT !.countAndTotal = 0]

\* composedValue := (ms << counterBytes) | 1
composedValueNoCount(ms) == Shl(ms, counterBytes)
composedValue(ms) == BitOr(Shl(ms, counterBytes), 1)

\* b.countAndTotal.Add(composedValue)
addComposedStore(b, ms) == [b EXCEPT !.countAndTotal = composedValue(ms)]
addComposed(b, ms) == [b EXCEPT !.countAndTotal = @ + composedValue(ms)]

\* bucket.load: unpack one read of countAndTotal
loadUnmasked(b) ==
    [Count |-> b.countAndTotal,
     Sum   |-> Shr(b.countAndTotal, counterBytes)]
loadUnshifted(b) ==
    [Count |-> BitAnd(b.countAndTotal, counterMusk),
     Sum   |-> b.countAndTotal]
load(b) ==
    [Count |-> BitAnd(b.countAndTotal, counterMusk),
     Sum   |-> Shr(b.countAndTotal, counterBytes)]

\* a whole bucket.observe call that no other goroutine interleaves with
bucketObserve(b, ts, ms) ==
    LET oldTs == b.ts
        b1 == IF outdated(oldTs, ts)
              THEN (IF casOk(b, oldTs) THEN storeZero(casTs(b, oldTs, ts))
                                       ELSE b)
              ELSE b
    IN  addComposed(b1, ms)

(***************************************************************************)
(* latencyStats                                                            *)
(***************************************************************************)
\* idx := int(ts) % bucketsCount
slotOfNext(ts) == GoRem(ts + 1, bucketsCount)
slotOf(ts) == GoRem(ts, bucketsCount)

\* the slot read by iteration i of getLatestStats
latestSlotForward(idx, i) == GoRem(idx + i, bucketsCount)
latestSlot(idx, i) == GoRem(idx + bucketsCount - i, bucketsCount)

(***************************************************************************)
(* Stats                                                                   *)
(*                                                                         *)
(* WeightedAvg works on float64.  The model computes with exact rationals  *)
(* over the common denominator attenuateDen^(n-1), n the length of s: the  *)
(* weight of entry j (1-based) is attenuateNum^(j-1) * attenuateDen^(n-j). *)
(* With integer counts the exact weighted count of up to 5 entries is a    *)
(* multiple of 1/10000, and float64 rounding (relative error about 1e-16)  *)
(* cannot carry it across the threshold from below.                        *)
(***************************************************************************)
\* a / b on unsigned words: Go panics (integer divide by zero) when b = 0,
\* and no value is returned
GoDivZeroIsZero(a, b) ==
    IF b = 0 THEN [panic |-> FALSE, val |-> 0]
    ELSE [panic |-> FALSE, val |-> a \div b]
GoDiv(a, b) ==
    IF b = 0 THEN [panic |-> TRUE, val |-> 0]
    ELSE [panic |-> FALSE, val |-> a \div b]

\* SingleStat.Avg: return s.Sum / s.Count
Avg(st) == GoDiv(st.Sum, st.Count)

\* TotalCount: the sum of Count over the entries
RECURSIVE TotalCount(_)
TotalCount(s) ==
    IF s = << >> THEN 0 ELSE Head(s).Count + TotalCount(Tail(s))

\* the loop of WeightedAvg from entry j on: [count, sum], both scaled by
\* attenuateDen^(n-1)
RECURSIVE weightedFrom(_, _)
weightedFrom(s, j) ==
    IF j > Len(s) THEN [count |-> 0, sum |-> 0]
    ELSE LET factor == (attenuateNum ^ (j - 1)) * (attenuateDen ^ (Len(s) - j))
             rest == weightedFrom(s, j + 1)
         IN  [count |-> s[j].Count * factor + rest.count,
              sum   |-> s[j].Sum * factor + rest.sum]

\* WeightedAvg: 0 below the threshold, else uint64(totalSum / totalCount)
WeightedAvg(s) ==
    LET t == weightedFrom(s, 1)
        scale == IF s = << >> THEN 1 ELSE attenuateDen ^ (Len(s) - 1)
    IN  IF t.count < minWeightedCount * scale THEN 0
        ELSE t.sum \div t.count

(***************************************************************************)
(* State                                                                   *)
(***************************************************************************)
VARIABLES
    buckets,    \* latencyStats.buckets: slot -> [ts, countAndTotal]
    pc,         \* goroutine -> where it is in its call
    loc,        \* goroutine -> arguments and locals of its call
    res,        \* goroutine -> the Stats its getLatestStats has built
    ops,        \* goroutine -> the atomic operations its call in progress
                \*              has done, in order (history)
    rd,         \* goroutine -> the slots its getLatestStats has read (history)
    ncalls,     \* goroutine -> observe calls it has started (history)
    win,        \* slot -> the observe calls that returned for the slot's
                \*         latest second: [sec, n, sum], and old, the number
                \*         of calls of the second before it (history)
    nthreads,   \* the goroutines of the run
    prior,      \* SpecConc: what the target slot held before the goroutines
                \*           started: [sec, n, sum]
    stats,      \* SpecStats: the Stats value under aggregation
    agg,        \* SpecStats: the results of the aggregation functions
    clock,      \* SpecClock: the Unix second time.Now() gives
    tally       \* SpecClock: second -> the observe calls that returned for
                \*            it: [n, sum] (history)

vars == <<buckets, pc, loc, res, ops, rd, ncalls, win, nthreads, prior,
          stats, agg, clock, tally>>

NoWin == [sec |-> -1, n |-> 0, sum |-> 0, old |-> 0]
NoLoc == [ts |-> 0, idx |-> 0, ms |-> 0, oldTs |-> 0, i |-> 0]
\* the outcome of a call that has not been made
NoAvg == [panic |-> FALSE, val |-> 0]
NoTally == [s \in Seconds |-> [n |-> 0, sum |-> 0]]
\* a step that is not one of SpecClock: no clock, no tally kept
NoTime == UNCHANGED <<clock, tally>>

NoAgg == [done |-> FALSE, total |-> 0, wavg |-> 0, avg |-> NoAvg]

\* the state of a latencyStats after construction, nothing running
InitTracker ==
    /\ buckets = [k \in Slots |-> ZeroBucket]
    /\ pc = [p \in Procs |-> "idle"]
    /\ loc = [p \in Procs |-> NoLoc]
    /\ res = [p \in Procs |-> << >>]
    /\ ops = [p \in Procs |-> << >>]
    /\ rd = [p \in Procs |-> << >>]
    /\ ncalls = [p \in Procs |-> 0]
    /\ win = [k \in Slots |-> NoWin]
    /\ clock = BaseSecond
    /\ tally = NoTally

InitSeq ==
    /\ InitTracker
    /\ nthreads = 1
    /\ prior = NoWin
    /\ stats = << >>
    /\ agg = NoAgg

\* latencyStats.observe(now, val) is entered: ts and idx are computed
ObserveStart(p, now, val) ==
    /\ pc[p] = "idle"
    /\ pc' = [pc EXCEPT ![p] = "load_ts"]
    /\ loc' = [loc EXCEPT ![p] = [NoLoc EXCEPT !.ts = now,
                                               !.idx = slotOf(now),
                                               !.ms = val]]
    /\ res' = [res EXCEPT ![p] = << >>]
    /\ ops' = [ops EXCEPT ![p] = << >>]
    /\ rd' = [rd EXCEPT ![p] = << >>]
    /\ ncalls' = [ncalls EXCEPT ![p] = @ + 1]
    /\ UNCHANGED <<buckets, win, nthreads, prior, stats, agg>>

\* bucket.observe(ts, ms) is called on slot idx directly
BucketObserveStart(p, idx, ts, val) ==
    /\ pc[p] = "idle"
    /\ pc' = [pc EXCEPT ![p] = "load_ts"]
    /\ loc' = [loc EXCEPT ![p] = [NoLoc EXCEPT !.ts = ts, !.idx = idx,
                                               !.ms = val]]
    /\ res' = [res EXCEPT ![p] = << >>]
    /\ ops' = [ops EXCEPT ![p] = << >>]
    /\ rd' = [rd EXCEPT ![p] = << >>]
    /\ ncalls' = [ncalls EXCEPT ![p] = @ + 1]
    /\ UNCHANGED <<buckets, win, nthreads, prior, stats, agg>>

\* oldTs := b.ts.Load()
ObserveLoadTs(p) ==
    /\ pc[p] = "load_ts"
    /\ LET oldTs == buckets[loc[p].idx].ts
       IN  /\ loc' = [loc EXCEPT ![p].oldTs = oldTs]
           /\ pc' = [pc EXCEPT ![p] =
                        IF outdated(oldTs, loc[p].ts) THEN "cas" ELSE "add"]
    /\ ops' = [ops EXCEPT ![p] = Append(@, "ts.Load")]
    /\ UNCHANGED <<buckets, res, rd, ncalls, win, nthreads, prior, stats, agg>>

\* if b.ts.CAS(oldTs, ts)
ObserveCas(p) ==
    /\ pc[p] = "cas"
    /\ LET b == buckets[loc[p].idx]
       IN  /\ buckets' = [buckets EXCEPT ![loc[p].idx] =
                             casTs(b, loc[p].oldTs, loc[p].ts)]
           /\ pc' = [pc EXCEPT ![p] = afterCas(casOk(b, loc[p].oldTs))]
    /\ ops' = [ops EXCEPT ![p] = Append(@, "ts.CAS")]
    /\ UNCHANGED <<loc, res, rd, ncalls, win, nthreads, prior, stats, agg>>

\* b.countAndTotal.Store(0)
ObserveStore(p) ==
    /\ pc[p] = "store"
    /\ buckets' = [buckets EXCEPT ![loc[p].idx] = storeZero(@)]
    /\ pc' = [pc EXCEPT ![p] = "add"]
    /\ ops' = [ops EXCEPT ![p] = Append(@, "Store")]
    /\ UNCHANGED <<loc, res, rd, ncalls, win, nthreads, prior, stats, agg>>

\* the history of a slot after observe(ts, ms) has returned
winAfter(w, ts, ms) ==
    IF w.sec = ts
    THEN [w EXCEPT !.n = @ + 1, !.sum = @ + ms]
    ELSE [sec |-> ts, n |-> 1, sum |-> ms, old |-> w.n]

\* b.countAndTotal.Add(composedValue), and the call returns
ObserveAdd(p) ==
    /\ pc[p] = "add"
    /\ buckets' = [buckets EXCEPT ![loc[p].idx] = addComposed(@, loc[p].ms)]
    /\ pc' = [pc EXCEPT ![p] = "idle"]
    /\ ops' = [ops EXCEPT ![p] = << >>]
    /\ win' = [win EXCEPT ![loc[p].idx] = winAfter(@, loc[p].ts, loc[p].ms)]
    /\ loc' = [loc EXCEPT ![p] = NoLoc]
    /\ UNCHANGED <<res, rd, ncalls, nthreads, prior, stats, agg>>

\* getLatestStats(now) is entered: res is empty and idx is computed
GetStart(p, now) ==
    /\ pc[p] = "idle"
    /\ pc' = [pc EXCEPT ![p] = "get"]
    /\ loc' = [loc EXCEPT ![p] = [NoLoc EXCEPT !.ts = now,
                                               !.idx = slotOf(now)]]
    /\ res' = [res EXCEPT ![p] = << >>]
    /\ ops' = [ops EXCEPT ![p] = << >>]
    /\ rd' = [rd EXCEPT ![p] = << >>]
    /\ UNCHANGED <<buckets, ncalls, win, nthreads, prior, stats, agg>>

\* an iteration that reads countAndTotal with Swap(0) in place of Load()
GetLoadSwap(p) ==
    /\ pc[p] = "get"
    /\ loc[p].i < numOfLastStats
    /\ LET k == latestSlot(loc[p].idx, loc[p].i)
       IN  /\ res' = [res EXCEPT ![p] = Append(@, load(buckets[k]))]
           /\ rd' = [rd EXCEPT ![p] = Append(@, k)]
           /\ buckets' = [buckets EXCEPT ![k] = storeZero(@)]
    /\ loc' = [loc EXCEPT ![p].i = @ + 1]
    /\ pc' = [pc EXCEPT ![p] =
                 IF loc[p].i + 1 < numOfLastStats THEN "get" ELSE "idle"]
    /\ ops' = [ops EXCEPT ![p] =
                  IF loc[p].i + 1 < numOfLastStats THEN Append(@, "Load")
                                                   ELSE << >>]
    /\ UNCHANGED <<ncalls, win, nthreads, prior, stats, agg>>

\* one iteration of the loop: res = append(res, buckets[...].load());
\* after the last one the call returns
GetLoad(p) ==
    /\ pc[p] = "get"
    /\ loc[p].i < numOfLastStats
    /\ LET k == latestSlot(loc[p].idx, loc[p].i)
       IN  /\ res' = [res EXCEPT ![p] = Append(@, load(buckets[k]))]
           /\ rd' = [rd EXCEPT ![p] = Append(@, k)]
    /\ loc' = [loc EXCEPT ![p].i = @ + 1]
    /\ pc' = [pc EXCEPT ![p] =
                 IF loc[p].i + 1 < numOfLastStats THEN "get" ELSE "idle"]
    /\ ops' = [ops EXCEPT ![p] =
                  IF loc[p].i + 1 < numOfLastStats THEN Append(@, "Load")
                                                   ELSE << >>]
    /\ UNCHANGED <<buckets, ncalls, win, nthreads, prior, stats, agg>>

\* one goroutine calling observe and getLatestStats one after the other
NextSeq ==
    \E p \in SeqProcs :
        \/ NoTime /\ \E now \in Seconds, val \in Values :
                         ncalls[p] < MaxObserve /\ ObserveStart(p, now, val)
        \/ NoTime /\ \E ts \in Seconds, val \in Values :
                         /\ ncalls[p] < MaxObserve
                         /\ BucketObserveStart(p, slotOf(BaseSecond), ts, val)
        \/ NoTime /\ ObserveLoadTs(p)
        \/ NoTime /\ ObserveCas(p)
        \/ NoTime /\ ObserveStore(p)
        \/ NoTime /\ ObserveAdd(p)
        \/ NoTime /\ \E now \in Seconds : GetStart(p, now)
        \/ NoTime /\ GetLoad(p)

SpecSeq == InitSeq /\ [][NextSeq]_vars

(***************************************************************************)
(* The aggregation functions applied to a Stats value                      *)
(***************************************************************************)
StatEntries ==
    [Count : {0, CountUnit, 2 * CountUnit}, Sum : {0, SumUnit}]

\* the Stats values of up to numOfLastStats entries
RECURSIVE StatsOfLen(_)
StatsOfLen(n) ==
    IF n = 0 THEN {<< >>}
    ELSE {Append(s, e) : s \in StatsOfLen(n - 1), e \in StatEntries}

InitStats ==
    /\ InitTracker
    /\ nthreads = 0
    /\ prior = NoWin
    /\ \E n \in 0 .. numOfLastStats : stats \in StatsOfLen(n)
    /\ agg = NoAgg

\* s.TotalCount() and s.WeightedAvg() are called on the value
Aggregate ==
    /\ ~agg.done
    /\ agg' = [agg EXCEPT !.done = TRUE, !.total = TotalCount(stats),
                           !.wavg = WeightedAvg(stats)]
    /\ UNCHANGED <<buckets, pc, loc, res, ops, rd, ncalls, win, nthreads,
                   prior, stats>>

NextStats == NoTime /\ Aggregate

SpecStats == InitStats /\ [][NextStats]_vars

(***************************************************************************)
(* NumWriters goroutines calling observe, for any seconds                  *)
(***************************************************************************)
Init ==
    /\ InitTracker
    /\ nthreads = NumWriters
    /\ prior = NoWin
    /\ stats = << >>
    /\ agg = NoAgg

\* p is one of the goroutines of the run
Running(p) == p <= nthreads

\* observe calls started by goroutines 1 .. n
RECURSIVE callsUpTo(_)
callsUpTo(n) == IF n = 0 THEN 0 ELSE ncalls[n] + callsUpTo(n - 1)

Next ==
    \E p \in Procs :
        \/ NoTime /\ \E now \in Seconds :
                         /\ Running(p) /\ callsUpTo(nthreads) < MaxCalls
                         /\ ObserveStart(p, now, ValUnit)
        \/ NoTime /\ Running(p) /\ ObserveLoadTs(p)
        \/ NoTime /\ Running(p) /\ ObserveCas(p)
        \/ NoTime /\ Running(p) /\ ObserveStore(p)
        \/ NoTime /\ Running(p) /\ ObserveAdd(p)

Spec == Init /\ [][Next]_vars

(***************************************************************************)
(* NumWriters goroutines calling observe(time.Now(), val): a call takes    *)
(* its second from the clock when it starts, the clock never goes back,    *)
(* and a call may be delayed for any time between two of its steps         *)
(***************************************************************************)
\* the clock moves on to a later second
Tick ==
    /\ \E s \in Seconds : s > clock /\ clock' = s
    /\ UNCHANGED <<buckets, pc, loc, res, ops, rd, ncalls, win, nthreads,
                   prior, stats, agg, tally>>

\* the calls that returned, by second, after observe(ts, ms) has returned
tallyAfter(t, ts, ms) ==
    [t EXCEPT ![ts] = [n |-> @.n + 1, sum |-> @.sum + ms]]

NextClock ==
    \/ Tick
    \/ \E p \in Procs :
           \/ \E val \in Values :
                  /\ Running(p) /\ callsUpTo(nthreads) < MaxCalls
                  /\ ObserveStart(p, clock, val)
                  /\ NoTime
           \/ Running(p) /\ ObserveLoadTs(p) /\ NoTime
           \/ Running(p) /\ ObserveCas(p) /\ NoTime
           \/ Running(p) /\ ObserveStore(p) /\ NoTime
           \/ /\ Running(p) /\ ObserveAdd(p)
              /\ tally' = tallyAfter(tally, loc[p].ts, loc[p].ms)
              /\ UNCHANGED clock

SpecClock == Init /\ [][NextClock]_vars

(***************************************************************************)
(* M goroutines, each calling observe once, all for ConcSecond             *)
(***************************************************************************)
\* k observe calls one after the other
RECURSIVE observeTimes(_, _, _, _)
observeTimes(b, ts, ms, k) ==
    IF k = 0 THEN b ELSE bucketObserve(observeTimes(b, ts, ms, k - 1), ts, ms)

\* the tracker when the goroutines start: the slot of ConcSecond holds k
\* samples observed for second sec
StartFrom(sec, k, m) ==
    /\ buckets = [j \in Slots |->
                     IF j = slotOf(ConcSecond)
                     THEN observeTimes(ZeroBucket, sec, ValUnit, k)
                     ELSE ZeroBucket]
    /\ prior = IF k = 0 THEN NoWin
                        ELSE [sec |-> sec, n |-> k, sum |-> k * ValUnit,
                              old |-> 0]
    /\ win = [j \in Slots |-> IF j = slotOf(ConcSecond) THEN prior ELSE NoWin]
    /\ pc = [p \in Procs |-> "idle"]
    /\ loc = [p \in Procs |-> NoLoc]
    /\ res = [p \in Procs |-> << >>]
    /\ ops = [p \in Procs |-> << >>]
    /\ rd = [p \in Procs |-> << >>]
    /\ ncalls = [p \in Procs |-> 0]
    /\ nthreads = m
    /\ stats = << >>
    /\ agg = NoAgg
    /\ clock = BaseSecond
    /\ tally = NoTally

\* the slot is fresh, or holds up to MaxPrior samples of the second one ring
\* revolution earlier or of ConcSecond itself
InitConc ==
    \E sec \in {BaseSecond, ConcSecond}, k \in 0 .. MaxPrior,
       m \in 1 .. NumProcs : StartFrom(sec, k, m)

NextConc ==
    \E p \in Procs :
        \/ NoTime /\ \E val \in Values :
                         /\ Running(p) /\ ncalls[p] = 0
                         /\ ObserveStart(p, ConcSecond, val)
        \/ NoTime /\ Running(p) /\ ObserveLoadTs(p)
        \/ NoTime /\ Running(p) /\ ObserveCas(p)
        \/ NoTime /\ Running(p) /\ ObserveStore(p)
        \/ NoTime /\ Running(p) /\ ObserveAdd(p)

SpecConc == InitConc /\ [][NextConc]_vars

\* a burst: up to BurstProcs goroutines on a tracker after construction.
\* Goroutines at the same place with the same locals are interchangeable:
\* of those, the one with the least number takes the step.
InitBurst == \E m \in 1 .. BurstProcs : StartFrom(BaseSecond, 0, m)

LeastOfItsKind(p) ==
    \A q \in 1 .. (p - 1) :
        <<pc[q], loc[q], ncalls[q]>> # <<pc[p], loc[p], ncalls[p]>>

NextBurst ==
    \E p \in Procs :
        \/ NoTime /\ /\ Running(p) /\ LeastOfItsKind(p) /\ ncalls[p] = 0
                     /\ ObserveStart(p, ConcSecond, ValUnit)
        \/ NoTime /\ Running(p) /\ LeastOfItsKind(p) /\ ObserveLoadTs(p)
        \/ NoTime /\ Running(p) /\ LeastOfItsKind(p) /\ ObserveCas(p)
        \/ NoTime /\ Running(p) /\ LeastOfItsKind(p) /\ ObserveStore(p)
        \/ NoTime /\ Running(p) /\ LeastOfItsKind(p) /\ ObserveAdd(p)

SpecBurst == InitBurst /\ [][NextBurst]_vars

(***************************************************************************)
(* M goroutines, each calling observe once for ConcSecond, and one more    *)
(* goroutine calling getLatestStats                                        *)
(***************************************************************************)
InitRead ==
    \E k \in 0 .. MaxReadPrior, m \in 1 .. NumProcs :
        StartFrom(BaseSecond, k, m)

\* the goroutine that reads
Reader(p) == p = nthreads + 1

NextRead ==
    \E p \in Procs :
        \/ NoTime /\ /\ Running(p) /\ ncalls[p] = 0
                     /\ ObserveStart(p, ConcSecond, ValUnit)
        \/ NoTime /\ Running(p) /\ ObserveLoadTs(p)
        \/ NoTime /\ Running(p) /\ ObserveCas(p)
        \/ NoTime /\ Running(p) /\ ObserveStore(p)
        \/ NoTime /\ Running(p) /\ ObserveAdd(p)
        \/ NoTime /\ \E now \in Seconds : Reader(p) /\ GetStart(p, now)
        \/ NoTime /\ Reader(p) /\ GetLoad(p)

SpecRead == InitRead /\ [][NextRead]_vars

(***************************************************************************)
(* M goroutines, each calling observe once for ConcSecond, and one more    *)
(* goroutine that calls getLatestStats once and then TotalCount,           *)
(* WeightedAvg and Avg on what it got                                      *)
(***************************************************************************)
\* res.TotalCount(), res.WeightedAvg() and res[0].Avg() on the Stats that
\* getLatestStats returned to p
AggregateRes(p) ==
    /\ pc[p] = "idle"
    /\ Len(res[p]) = numOfLastStats
    /\ ~agg.done
    /\ agg' = [done |-> TRUE, total |-> TotalCount(res[p]),
               wavg |-> WeightedAvg(res[p]), avg |-> Avg(res[p][1])]
    /\ UNCHANGED <<buckets, pc, loc, res, ops, rd, ncalls, win, nthreads,
                   prior, stats>>

NextMix ==
    \E p \in Procs :
        \/ NoTime /\ /\ Running(p) /\ ncalls[p] = 0
                     /\ ObserveStart(p, ConcSecond, ValUnit)
        \/ NoTime /\ Running(p) /\ ObserveLoadTs(p)
        \/ NoTime /\ Running(p) /\ ObserveCas(p)
        \/ NoTime /\ Running(p) /\ ObserveStore(p)
        \/ NoTime /\ Running(p) /\ ObserveAdd(p)
        \/ NoTime /\ \E now \in Seconds :
                         Reader(p) /\ rd[p] = << >> /\ GetStart(p, now)
        \/ NoTime /\ Reader(p) /\ GetLoad(p)
        \/ NoTime /\ Reader(p) /\ AggregateRes(p)

SpecMix == InitRead /\ [][NextMix]_vars

(***************************************************************************)
(* getLatestStats and the aggregation functions on a tracker whose latest  *)
(* slots are empty, full, or one past full                                 *)
(***************************************************************************)
\* the seconds of the numOfLastStats latest slots, and the samples a slot
\* may hold: none, as many as the count field can hold, or one more
SnapSeconds == BaseSecond .. (BaseSecond + numOfLastStats - 1)
SnapNow == BaseSecond + numOfLastStats - 1
FillCounts == {0, counterMusk, counterMusk + 1}

InitSnap ==
    /\ \E fill \in [SnapSeconds -> FillCounts] :
           /\ buckets = [j \in Slots |->
                            IF \E t \in SnapSeconds : slotOf(t) = j
                            THEN LET t == CHOOSE t \in SnapSeconds : slotOf(t) = j
                                 IN  observeTimes(ZeroBucket, t, ValUnit, fill[t])
                            ELSE ZeroBucket]
           /\ win = [j \in Slots |->
                        IF \E t \in SnapSeconds : slotOf(t) = j /\ fill[t] > 0
                        THEN LET t == CHOOSE t \in SnapSeconds : slotOf(t) = j
                             IN  [sec |-> t, n |-> fill[t],
                                  sum |-> fill[t] * ValUnit, old |-> 0]
                        ELSE NoWin]
    /\ pc = [p \in Procs |-> "idle"]
    /\ loc = [p \in Procs |-> NoLoc]
    /\ res = [p \in Procs |-> << >>]
    /\ ops = [p \in Procs |-> << >>]
    /\ rd = [p \in Procs |-> << >>]
    /\ ncalls = [p \in Procs |-> 0]
    /\ nthreads = 0
    /\ prior = NoWin
    /\ stats = << >>
    /\ agg = NoAgg
    /\ clock = BaseSecond
    /\ tally = NoTally

NextSnap ==
    \E p \in Procs :
        \/ NoTime /\ Reader(p) /\ rd[p] = << >> /\ GetStart(p, SnapNow)
        \/ NoTime /\ Reader(p) /\ GetLoad(p)
        \/ NoTime /\ Reader(p) /\ AggregateRes(p)

SpecSnap == InitSnap /\ [][NextSnap]_vars

(***************************************************************************)
(* Avg applied to a SingleStat value, beside a tracker that holds samples  *)
(***************************************************************************)
\* the SingleStat values Avg is called with
AvgEntries == [Count : 0 .. MaxAvgCount, Sum : 0 .. MaxAvgSum]

\* a tracker whose slot of BaseSecond holds up to MaxReadPrior samples, no
\* goroutine running, and one SingleStat value
InitAvg ==
    /\ \E k \in 0 .. MaxReadPrior :
           /\ buckets = [j \in Slots |->
                            IF j = slotOf(BaseSecond)
                            THEN observeTimes(ZeroBucket, BaseSecond, ValUnit, k)
                            ELSE ZeroBucket]
           /\ win = [j \in Slots |->
                        IF j = slotOf(BaseSecond) /\ k > 0
                        THEN [sec |-> BaseSecond, n |-> k,
                              sum |-> k * ValUnit, old |-> 0]
                        ELSE NoWin]
    /\ pc = [p \in Procs |-> "idle"]
    /\ loc = [p \in Procs |-> NoLoc]
    /\ res = [p \in Procs |-> << >>]
    /\ ops = [p \in Procs |-> << >>]
    /\ rd = [p \in Procs |-> << >>]
    /\ ncalls = [p \in Procs |-> 0]
    /\ nthreads = 0
    /\ prior = NoWin
    /\ \E e \in AvgEntries : stats = <<e>>
    /\ agg = NoAgg
    /\ clock = BaseSecond
    /\ tally = NoTally

\* stats[1].Avg() is called: it returns a value or panics
AvgCall ==
    /\ ~agg.done
    /\ agg' = [agg EXCEPT !.done = TRUE, !.avg = Avg(stats[1])]
    /\ UNCHANGED <<buckets, pc, loc, res, ops, rd, ncalls, win, nthreads,
                   prior, stats>>

NextAvg == NoTime /\ AvgCall

SpecAvg == InitAvg /\ [][NextAvg]_vars

\* every goroutine of the run has made its one call, and it has returned
AllReturned == \A p \in 1 .. nthreads : ncalls[p] = 1 /\ pc[p] = "idle"

\* the slot was fresh, or held samples of an earlier second
PriorOfOtherSecond == prior.n = 0 \/ prior.sec # ConcSecond

\* what load() returns for the slot of ConcSecond
ConcStat == load(buckets[slotOf(ConcSecond)])

(***************************************************************************)
(* Properties of a sequential run (SpecSeq)                                *)
(***************************************************************************)
\* no observe call is in progress
Quiet == \A p \in Procs : pc[p] \in {"idle", "get"}

\* getLatestStats has returned to p, which holds its result
GetReturned(p) == pc[p] = "idle" /\ loc[p].i > 0

\* C1: after N sequential observe calls for one second s, 1 <= N <= 7, into
\* a bucket that was fresh or held another second, load() returns Count = N
\* and Sum = v_1 + ... + v_N exactly.
C1_SeqExact ==
    \A k \in Slots :
        (Quiet /\ win[k].n >= 1 /\ win[k].n <= 7)
            => load(buckets[k]) = [Count |-> win[k].n, Sum |-> win[k].sum]

\* three samples ValUnit, ValUnit, 2 * ValUnit of one second are loaded as
\* Count 3 and their sum
C1_Witness ==
    \E k \in Slots :
        /\ Quiet
        /\ win[k].n = 3 /\ win[k].sum = 4 * ValUnit
        /\ load(buckets[k]) = [Count |-> 3, Sum |-> 4 * ValUnit]

\* C4: when a slot held samples of second t and then k samples, 1 <= k <= 7,
\* of another second t' are observed into it one after the other, load()
\* returns Count = k and the sum of the t' samples, and the slot's ts is t':
\* nothing of t remains.
C4_SeqReset ==
    \A k \in Slots :
        (Quiet /\ win[k].old >= 1 /\ win[k].n >= 1 /\ win[k].n <= 7)
            => /\ buckets[k].ts = win[k].sec
               /\ load(buckets[k]).Count = win[k].n
               /\ load(buckets[k]).Sum = win[k].sum

\* two samples at BaseSecond, then one at BaseSecond + bucketsCount: the slot
\* holds the one sample only
C4_Witness ==
    \E k \in Slots :
        /\ Quiet
        /\ win[k].old = 2
        /\ win[k].sec = BaseSecond + bucketsCount
        /\ win[k].n = 1
        /\ load(buckets[k]) = [Count |-> 1, Sum |-> win[k].sum]

\* C5: getLatestStats(now) with Unix second u >= 0 returns exactly 5 entries,
\* newest first: entry i is the load() of bucket ((u mod 10) - i + 10) mod 10.
C5_LatestOrder ==
    \A p \in Procs :
        /\ Len(res[p]) <= 5
        /\ GetReturned(p) =>
               /\ Len(res[p]) = 5
               /\ \A i \in 0 .. 4 :
                      LET k == (((loc[p].ts % 10) - i) + 10) % 10
                      IN  /\ rd[p][i + 1] = k
                          /\ res[p][i + 1] = load(buckets[k])

\* a snapshot at BaseSecond + 1 whose entry 0 (the slot of BaseSecond + 1)
\* and entry 1 (the slot of BaseSecond) hold different data
C5_Witness ==
    \E p \in Procs :
        /\ GetReturned(p)
        /\ loc[p].ts = BaseSecond + 1
        /\ res[p][1].Count = 1
        /\ res[p][2].Count = 2
        /\ res[p][3].Count = 0

\* C7: the count is the low 3 bits of the word: after N sequential
\* observations of one second on a freshly reset bucket load() returns
\* Count = N mod 8 and Sum = (v_1 + ... + v_N) + floor(N / 8).
C7_CountOverflow ==
    \A k \in Slots :
        (Quiet /\ win[k].n >= 1)
            => /\ load(buckets[k]).Count = win[k].n % 8
               /\ load(buckets[k]).Sum = win[k].sum + (win[k].n \div 8)

\* the 8th observation of a window leaves Count 0 and a Sum 1 too large
C7_Witness ==
    \E k \in Slots :
        /\ Quiet
        /\ win[k].n = 8
        /\ load(buckets[k]).Count = 0
        /\ load(buckets[k]).Sum = win[k].sum + 1

\* C8: getLatestStats does not compare a slot's ts with the second the entry
\* stands for: entry i of getLatestStats(u) is what was last observed into
\* the slot, also when that was for another second than u - i.
C8_StaleUnfiltered ==
    \A p \in Procs :
        GetReturned(p) =>
            \A i \in 0 .. 4 :
                LET w == win[(loc[p].ts - i) % 10]
                IN  (w.n >= 1 /\ w.n <= 7 /\ w.sec # loc[p].ts - i)
                        => res[p][i + 1] = [Count |-> w.n, Sum |-> w.sum]

\* two samples written at BaseSecond and none since are returned as entry 0
\* of the snapshot taken at BaseSecond + bucketsCount
C8_Witness ==
    \E p \in Procs :
        /\ GetReturned(p)
        /\ loc[p].ts = BaseSecond + bucketsCount
        /\ win[slotOf(BaseSecond)].sec = BaseSecond
        /\ win[slotOf(BaseSecond)].n = 2
        /\ res[p][1] = [Count |-> 2, Sum |-> win[slotOf(BaseSecond)].sum]

(***************************************************************************)
(* Properties of M concurrent calls for one second (SpecConc, SpecBurst)   *)
(***************************************************************************)
\* C2: M goroutines each call observe once for the same second, into a slot
\* that is fresh or holds data of an earlier second: whatever the
\* interleaving, the Count loaded after all M calls returned is at most M.
C2_CountAtMostM ==
    (AllReturned /\ PriorOfOtherSecond) => ConcStat.Count <= nthreads

\* three calls into a slot holding an earlier second, and two of the three
\* samples are lost to the reset
C2_Witness ==
    /\ AllReturned
    /\ prior.n >= 1 /\ prior.sec # ConcSecond
    /\ nthreads = 3
    /\ ConcStat.Count = 1

\* C3: M goroutines each call observe once for the same second: for every
\* M >= 1 and every interleaving, the Count loaded after all M calls
\* returned is at least 1.
C3_CountPositive == AllReturned => ConcStat.Count >= 1

\* C6: the slot's ts already equals s, it holds Count c and Sum t, and M
\* goroutines each call observe(s, v_i) once with c + M <= 7: whatever the
\* interleaving, after all returned load() gives Count = c + M and
\* Sum = t + v_1 + ... + v_M.
C6_NoLostUpdate ==
    (AllReturned /\ prior.n >= 1 /\ prior.sec = ConcSecond
        /\ prior.n + nthreads <= 7)
        => /\ buckets[slotOf(ConcSecond)].ts = ConcSecond
           /\ win[slotOf(ConcSecond)].n = prior.n + nthreads
           /\ ConcStat.Count = prior.n + nthreads
           /\ ConcStat.Sum = win[slotOf(ConcSecond)].sum

\* three goroutines add ValUnit, ValUnit and 2 * ValUnit (in some order) to
\* a slot that held two samples of the same second
C6_Witness ==
    /\ AllReturned
    /\ prior.sec = ConcSecond /\ prior.n = 2
    /\ nthreads = 3
    /\ ConcStat = [Count |-> 5, Sum |-> prior.sum + 4 * ValUnit]

\* p's CAS succeeds in this step; p executes its Store(0) in this step
CasWon(p) == pc[p] = "cas" /\ pc'[p] = "store"
StoreDone(p) == pc[p] = "store" /\ pc'[p] = "add"

\* C14: M concurrent observe calls, all for second s, arrive at a bucket
\* whose ts differs from s: exactly one of them succeeds in the CAS of ts
\* from the old value to s, exactly one Store(0) is executed, by that call,
\* and every other call goes to its Add without writing anything else.
C14_SingleWinner ==
    [][PriorOfOtherSecond =>
           LET k == slotOf(ConcSecond)
           IN  /\ \A p \in Procs :
                      /\ CasWon(p) =>
                             /\ buckets[k].ts # ConcSecond
                             /\ buckets[k].ts = loc[p].oldTs
                             /\ buckets'[k].ts = ConcSecond
                             /\ \A q \in Procs : pc[q] # "store"
                      /\ StoreDone(p) =>
                             /\ ops[p] = <<"ts.Load", "ts.CAS">>
                             /\ \A q \in Procs \ {p} : pc[q] # "store"
                      /\ (pc[p] = "cas" /\ pc'[p] = "add") =>
                             buckets' = buckets
               /\ buckets[k].ts = ConcSecond => buckets'[k].ts = ConcSecond
               /\ AllReturned' => buckets'[k].ts = ConcSecond]_vars

\* of three calls at a slot that held another second, one has won the CAS
\* and not stored yet, one has lost its CAS and one skipped it
C14_Witness ==
    /\ prior.n >= 1 /\ prior.sec # ConcSecond
    /\ nthreads = 3
    /\ \E p, q, r \in Procs :
           /\ pc[p] = "store"
           /\ pc[q] = "add" /\ ops[q] = <<"ts.Load", "ts.CAS">>
           /\ pc[r] = "add" /\ ops[r] = <<"ts.Load">>

(***************************************************************************)
(* Properties of writers running beside a reader (SpecRead)                *)
(***************************************************************************)
\* the next atomic operation of p's own call
OwnStep(p) ==
    \/ ObserveLoadTs(p)
    \/ ObserveCas(p)
    \/ ObserveStore(p)
    \/ ObserveAdd(p)
    \/ GetLoad(p)

\* C9: every call completes within a bounded number of its own atomic
\* operations, whatever the other goroutines do: an observe in progress has
\* done at most one ts.Load, one CAS (never retried) and one Store before its
\* one Add, a getLatestStats fewer than 5 Loads before its last, and the next
\* operation of a call in progress can always be taken: no call waits for
\* another.
C9_WaitFree ==
    \A p \in Procs :
        /\ pc[p] = "load_ts" => ops[p] = << >>
        /\ pc[p] = "cas" => ops[p] = <<"ts.Load">>
        /\ pc[p] = "store" => ops[p] = <<"ts.Load", "ts.CAS">>
        /\ pc[p] = "add" => ops[p] \in {<<"ts.Load">>,
                                        <<"ts.Load", "ts.CAS">>,
                                        <<"ts.Load", "ts.CAS", "Store">>}
        /\ pc[p] = "get" => /\ Len(ops[p]) = loc[p].i
                            /\ Len(ops[p]) < 5
                            /\ \A j \in 1 .. Len(ops[p]) : ops[p][j] = "Load"
        /\ pc[p] # "idle" => ENABLED OwnStep(p)

\* a call whose CAS was lost to another goroutine goes on to its Add while
\* the winner has not stored yet and the reader is in its loop
C9_Witness ==
    \E p, q, r \in Procs :
        /\ pc[p] = "add" /\ ops[p] = <<"ts.Load", "ts.CAS">>
        /\ pc[q] = "store"
        /\ pc[r] = "get" /\ loc[r].i = 2

(***************************************************************************)
(* Properties of the aggregation functions (SpecStats)                     *)
(***************************************************************************)
\* 10000 * 0.9^i for the entries i = 0 .. 4 of a snapshot
DecayWeights == <<10000, 9000, 8100, 7290, 6561>>

\* 10000 times the decayed weighted count of the first n entries of s
RECURSIVE DecayedCount(_, _)
DecayedCount(s, n) ==
    IF n = 0 THEN 0
    ELSE s[n].Count * DecayWeights[n] + DecayedCount(s, n - 1)

\* C10: WeightedAvg() returns 0 for every Stats value whose decayed weighted
\* count (the sum of Count_i * 0.9^i, the newest entry i = 0 with weight 1)
\* is below 100, whatever the Sum values are.
C10_BelowThresholdZero ==
    (agg.done /\ DecayedCount(stats, Len(stats)) < 1000000) => agg.wavg = 0

\* a weighted count of 50 + 45 = 95 and sums that are not 0
C10_Witness ==
    /\ agg.done
    /\ Len(stats) = 5
    /\ stats[1] = [Count |-> CountUnit, Sum |-> SumUnit]
    /\ stats[2] = [Count |-> CountUnit, Sum |-> SumUnit]
    /\ TotalCount(stats) = 2 * CountUnit
    /\ DecayedCount(stats, 5) < 1000000
    /\ agg.wavg = 0

(***************************************************************************)
(* Properties of SingleStat.Avg (SpecAvg)                                  *)
(***************************************************************************)
\* C11: Avg() returns the integer quotient Sum div Count whenever Count > 0;
\* called with Count = 0 its outcome is a division-by-zero panic and not a
\* returned value; the call leaves every bucket as it was.
C11_AvgQuotient ==
    [][(~agg.done /\ agg'.done) =>
           /\ stats[1].Count > 0 =>
                  /\ ~agg'.avg.panic
                  /\ agg'.avg.val * stats[1].Count <= stats[1].Sum
                  /\ (agg'.avg.val + 1) * stats[1].Count > stats[1].Sum
           /\ stats[1].Count = 0 => agg'.avg.panic
           /\ buckets' = buckets]_vars

\* Count 7 and Sum 60 give 8, beside a tracker that holds two samples
C11_Witness ==
    /\ agg.done
    /\ stats[1] = [Count |-> 7, Sum |-> 60]
    /\ agg.avg = [panic |-> FALSE, val |-> 8]
    /\ load(buckets[slotOf(BaseSecond)]).Count = 2

\* Count 0: the call has panicked
C11_WitnessZero ==
    /\ agg.done
    /\ stats[1].Count = 0 /\ stats[1].Sum > 0
    /\ agg.avg.panic

(***************************************************************************)
(* Properties of concurrent writers of any seconds (Spec)                  *)
(***************************************************************************)
\* goroutine p takes a step of its observe call
StepOf(p) == pc'[p] # pc[p]

\* the second of the observe call p is taking a step of
SecondOf(p) == IF pc[p] = "idle" THEN loc'[p].ts ELSE loc[p].ts

\* C12: latencyStats.observe(now, v) with Unix second u >= 0 touches only
\* bucket u mod 10: no step of the call changes the ts or the countAndTotal
\* of any of the other 9 buckets.
C12_WriteFrame ==
    [][\A p \in Procs :
           StepOf(p) =>
               \A k \in Slots :
                   k # SecondOf(p) % 10 => buckets'[k] = buckets[k]]_vars

\* calls for BaseSecond + 1 and BaseSecond + bucketsCount have returned:
\* each left its sample in its own bucket, the other 8 are as constructed
C12_Witness ==
    /\ \A p \in Procs : pc[p] = "idle"
    /\ win[slotOf(BaseSecond + 1)].n = 1
    /\ win[slotOf(BaseSecond + bucketsCount)].n = 2
    /\ buckets[slotOf(BaseSecond + 1)].ts = BaseSecond + 1
    /\ load(buckets[slotOf(BaseSecond + 1)]).Count = 1
    /\ buckets[slotOf(BaseSecond + bucketsCount)].ts = BaseSecond + bucketsCount
    /\ load(buckets[slotOf(BaseSecond + bucketsCount)]).Count = 2
    /\ \A k \in Slots :
           k \notin {slotOf(BaseSecond + 1), slotOf(BaseSecond + bucketsCount)}
               => buckets[k] = ZeroBucket

\* the writers whose call has returned
Returned == {q \in Procs : Running(q) /\ ncalls[q] = 1 /\ pc[q] = "idle"}

\* the reader p takes the load() of the slot of ConcSecond in this step
LoadsConcSlot(p) ==
    /\ Reader(p) /\ pc[p] = "get"
    /\ Len(res'[p]) = Len(res[p]) + 1
    /\ latestSlot(loc[p].idx, loc[p].i) = slotOf(ConcSecond)

\* C16: load() is not synchronized with ts: a load() that runs after the
\* winner's CAS of ts and before its Store(0) returns the samples of the
\* slot's previous second together with the samples of the new second
\* added so far, as one Count and one Sum.
C16_LoadMixesWindows ==
    [][\A p \in Procs :
           (LoadsConcSlot(p) /\ \E q \in Procs : pc[q] = "store") =>
               /\ buckets[slotOf(ConcSecond)].ts = ConcSecond
               /\ res'[p][Len(res'[p])] =
                      [Count |-> prior.n + Cardinality(Returned),
                       Sum   |-> prior.sum + Cardinality(Returned) * ValUnit]
      ]_vars

\* the slot held two samples of BaseSecond; the winner of the CAS for
\* ConcSecond has not stored yet, another call for ConcSecond has added, and
\* the reader got Count 3: two samples of the old second and one of the new
C16_Witness ==
    \E p, q \in Procs :
        /\ Reader(p) /\ pc[q] = "store"
        /\ prior.sec = BaseSecond /\ prior.n = 2
        /\ Cardinality(Returned) = 1
        /\ buckets[slotOf(ConcSecond)].ts = ConcSecond
        /\ Len(rd[p]) >= 1
        /\ rd[p][Len(rd[p])] = slotOf(ConcSecond)
        /\ res[p][Len(res[p])] = [Count |-> 3, Sum |-> 3 * ValUnit]

(***************************************************************************)
(* Properties of readers beside writers (SpecMix)                          *)
(***************************************************************************)
\* the step is one of a reader: of getLatestStats (each iteration is one
\* load()), or the return of TotalCount, WeightedAvg and Avg
ReaderStep ==
    \/ \E p \in Procs : Reader(p) /\ (pc'[p] # pc[p] \/ loc'[p] # loc[p])
    \/ agg' # agg

\* C13: load(), getLatestStats(), TotalCount(), WeightedAvg() and Avg()
\* leave every bucket's ts and countAndTotal unchanged, and nothing a writer
\* goes by either (its position, its locals), so that the writers reach the
\* bucket states they reach without the reader.
C13_ReadersFrame ==
    [][ReaderStep =>
           /\ buckets' = buckets
           /\ \A q \in Procs :
                  Running(q) => pc'[q] = pc[q] /\ loc'[q] = loc[q]]_vars

\* the reader took its snapshot while the writers were at work and
\* aggregated it; all three writers have returned and the bucket holds
\* their three samples
C13_Witness ==
    /\ agg.done /\ agg.total >= 1
    /\ nthreads = 3 /\ AllReturned
    /\ buckets[slotOf(ConcSecond)].ts = ConcSecond
    /\ ConcStat = [Count |-> 3, Sum |-> 3 * ValUnit]
    /\ \E p \in Procs : Reader(p) /\ res[p][1].Count \in {1, 2}

\* every observe call in progress on bucket k is for the second k holds
AllTarget(k) ==
    \A p \in Procs :
        (pc[p] # "idle" /\ loc[p].idx = k) => loc[p].ts = buckets[k].ts

\* a bucket's ts changes only by a successful CAS inside an observe call,
\* to the second of that call, which is another second than it held
TsByCasOnly ==
    \A k \in Slots :
        buckets'[k].ts # buckets[k].ts =>
            \E p \in Procs :
                /\ CasWon(p) /\ loc[p].idx = k
                /\ buckets[k].ts = loc[p].oldTs
                /\ buckets'[k].ts = loc[p].ts
                /\ loc[p].ts # buckets[k].ts

\* while every call in progress targets the second s the bucket holds, ts
\* stays s and no call wins a CAS
NoCasWhileSame ==
    \A k \in Slots :
        AllTarget(k) =>
            /\ buckets'[k].ts = buckets[k].ts
            /\ \A p \in Procs : loc[p].idx = k => ~CasWon(p)

\* while every call in progress targets the second s the bucket holds,
\* countAndTotal is reset at most once: when a call executes its Store(0)
\* no other call has a Store(0) still to come
OneStoreWhileSame ==
    \A k \in Slots :
        AllTarget(k) =>
            \A p \in Procs :
                (StoreDone(p) /\ loc[p].idx = k) =>
                    \A q \in Procs \ {p} :
                        ~(pc[q] = "store" /\ loc[q].idx = k)

C18_WeightedAvgAlwaysZero ==
    \A p \in Procs :
        /\ \A i \in 1 .. Len(res[p]) : res[p][i].Count <= 7
        /\ (agg.done /\ Reader(p)) =>
               /\ agg.total = TotalCount(res[p])
               /\ agg.total <= 35
               /\ DecayedCount(res[p], Len(res[p])) <= 7 * 40951
               /\ DecayedCount(res[p], Len(res[p])) < 1000000
               /\ agg.wavg = 0

\* all five slots hold 7 samples: TotalCount is 35, the sums are not 0 and
\* WeightedAvg is 0
C18_Witness ==
    \E p \in Procs :
        /\ Reader(p) /\ agg.done
        /\ \A i \in 1 .. 5 : res[p][i] = [Count |-> 7, Sum |-> 7 * ValUnit]
        /\ agg.total = 35
        /\ agg.wavg = 0

(***************************************************************************)
(* Properties of concurrent writers on a clock (SpecClock)                 *)
(***************************************************************************)
\* C15: in every quiescent state (no observe call in progress), for any
\* interleaving of concurrent observe calls, calls for different seconds of
\* one slot included, each bucket holds samples of its current ts only: its
\* Count is at most the number of returned calls whose second is ts and its
\* Sum at most the sum of their values.
C15_OneWindowPerSlot ==
    \A k \in Slots :
        ((\A p \in Procs : pc[p] = "idle") /\ buckets[k].ts \in Seconds)
            => /\ load(buckets[k]).Count <= tally[buckets[k].ts].n
               /\ load(buckets[k]).Sum <= tally[buckets[k].ts].sum

\* C19: a bucket's ts never decreases, and no observe call for second s
\* resets (CAS, then Store(0)) a bucket whose ts is already greater than s.
C19_NoOlderReset ==
    [][/\ \A k \in Slots : buckets'[k].ts >= buckets[k].ts
       /\ \A p \in Procs :
              CasWon(p) => buckets[loc[p].idx].ts <= loc[p].ts]_vars

====
